---- MODULE Spec2Model ----
(***************************************************************************)
(* Model of the phishing-risk scoring pipeline of AI-Phising-Detector:     *)
(* PhishingDetector (detector.py) and the e-mail helpers (utils.py).       *)
(*                                                                         *)
(* Python strings are modelled as sequences of lexemes.  A lexeme is an    *)
(* atomic run of characters ("http://", ".tk", "risk", "7", " ", "{" ...); *)
(* the regular expressions and substring tests of the code are evaluated   *)
(* lexeme by lexeme.  Python values that the claims type-check (results,   *)
(* JSON values, payloads) carry a type tag.                                *)
(***************************************************************************)
EXTENDS Integers, Sequences, FiniteSets, TLC

VARIABLES pc, email_content, metadata, sent, outcome, result, raw_email, fault, parsed

vars == <<pc, email_content, metadata, sent, outcome, result, raw_email, fault, parsed>>

(***************************************************************************)
(* Python values                                                           *)
(***************************************************************************)
PyInt(n) == [type |-> "int", val |-> n]
PyStr(s) == [type |-> "str", val |-> s]
PyFloat(s) == [type |-> "float", val |-> s]
PyList(l) == [type |-> "list", val |-> l]
PyBytes(s) == [type |-> "bytes", val |-> s]
PyNone == [type |-> "NoneType"]

Return(v) == [kind |-> "return", value |-> v]
Raise(e) == [kind |-> "raise", value |-> e]

(***************************************************************************)
(* Lexeme classes and string helpers                                       *)
(***************************************************************************)
\* \s of the re module
Whitespace == {" ", "\n", "\t"}

\* \d of the re module
Digits == {"0", "1", "2", "3", "5", "7", "8", "9"}

DigitVal(d) ==
  CASE d = "0" -> 0 [] d = "1" -> 1 [] d = "2" -> 2 [] d = "3" -> 3
    [] d = "5" -> 5 [] d = "7" -> 7 [] d = "8" -> 8 [] d = "9" -> 9

\* int() of a run of digit lexemes
RECURSIVE IntOf(_)
IntOf(ds) ==
  IF Len(ds) = 0 THEN 0
  ELSE 10 * IntOf(SubSeq(ds, 1, Len(ds) - 1)) + DigitVal(ds[Len(ds)])

\* str.lower() of one lexeme
LowerLexeme(x) ==
  CASE x = "URGENT" -> "urgent"
    [] x = "Verify" -> "verify"
    [] x = "Risk" -> "risk"
    [] x = "SCORE" -> "score"
    [] x = "HTTP://" -> "http://"
    [] OTHER -> x

\* str.lower()
Lower(s) == [i \in 1..Len(s) |-> LowerLexeme(s[i])]

\* the keyword-sized substrings of one lexeme ("urgently" holds "urgent")
SubstringsOf(x) == IF x = "urgently" THEN {x, "urgent"} ELSE {x}

\* Python's `needle in haystack` for a one-lexeme needle
Contains(s, needle) == \E i \in 1..Len(s) : needle \in SubstringsOf(s[i])

\* str.endswith for a one-lexeme suffix
EndsWith(s, suffix) == Len(s) > 0 /\ s[Len(s)] = suffix

\* s[:n]
Take(s, n) == SubSeq(s, 1, IF Len(s) < n THEN Len(s) ELSE n)

Min(a, b) == IF a < b THEN a ELSE b

\* the least index >= i of s whose lexeme is in set S, or Len(s) + 1
RECURSIVE FirstIn(_, _, _)
FirstIn(s, i, S) ==
  IF i > Len(s) THEN Len(s) + 1
  ELSE IF s[i] \in S THEN i
  ELSE FirstIn(s, i + 1, S)

\* the least index >= i of s whose lexeme is not in set S, or Len(s) + 1
RECURSIVE FirstNotIn(_, _, _)
FirstNotIn(s, i, S) ==
  IF i > Len(s) THEN Len(s) + 1
  ELSE IF s[i] \notin S THEN i
  ELSE FirstNotIn(s, i + 1, S)

(***************************************************************************)
(* detector.py: PhishingDetector                                           *)
(***************************************************************************)
phishing_keywords ==
  <<"urgent", "immediately", "verify", "account suspended", "password expired",
    "security alert", "click here", "confirm your identity",
    "unauthorized login attempt">>

suspicious_tlds == {".tk", ".ml", ".ga", ".cf", ".xyz", ".top"}

shorteners == {"bit.ly", "tinyurl.com", "goo.gl", "ow.ly", "is.gd"}

redirect_keywords == {"redirect", "login", "verify", "confirm", "secure"}

\* lexemes that hold a match of \d+\.\d+\.\d+\.\d+
DottedQuads == {"1.2.3.4", "192.168.1.1"}

\* the alternatives https?:// and www\. of url_pattern
UrlStart == {"http://", "https://", "www."}

\* the complement of [^\s<>"] in url_pattern
UrlStop == Whitespace \cup {"<", ">", "\"", "<b>", "</b>", "<script>", "</script>"}

\* re.findall(url_pattern, text): the non-overlapping matches, left to right
RECURSIVE FindUrls(_, _)
FindUrls(text, i) ==
  IF i > Len(text) THEN <<>>
  ELSE IF text[i] \in UrlStart /\ i < Len(text) /\ text[i + 1] \notin UrlStop
  THEN LET e == FirstIn(text, i + 1, UrlStop)
       IN <<SubSeq(text, i, e - 1)>> \o FindUrls(text, e)
  ELSE FindUrls(text, i + 1)

\* lexemes that begin with ':' (urlsplit looks for the first ':')
ColonLexemes == {"://", ":80"}

\* the delimiters that end the network location
UrlDelims == {"/", "?", "#"}

\* lexemes holding a character that is not allowed in a URL scheme
NonSchemeLexemes == UrlDelims \cup {"[", "]", "_", "{", "}", ":", "\""}

\* urllib.parse.urlparse(url).netloc, or the ValueError it raises
NetlocAfter(url, i) ==
  LET e == FirstIn(url, i, UrlDelims)
      netloc == SubSeq(url, i, e - 1)
      open == \E k \in 1..Len(netloc) : netloc[k] = "["
      close == \E k \in 1..Len(netloc) : netloc[k] = "]"
  IN IF open # close THEN Raise("ValueError") ELSE Return(netloc)

urlparse_netloc(url) ==
  IF url[1] \in {"http://", "https://"} THEN NetlocAfter(url, 2)
  ELSE LET c == FirstIn(url, 1, ColonLexemes)
       IN IF /\ c <= Len(url)
             /\ \A k \in 1..(c - 1) : url[k] \notin NonSchemeLexemes
             /\ url[c] = "://"
          THEN NetlocAfter(url, c + 1)
          ELSE Return(<<>>)

_is_shortened_url(url) == \E s \in shorteners : Contains(Lower(url), s)

\* _has_suspicious_tld testing the suffix of the whole URL, not of its netloc
_has_suspicious_tld_of_url(url) ==
  LET parsed_url == urlparse_netloc(url)
  IN IF parsed_url.kind = "raise" THEN parsed_url
     ELSE Return(\E tld \in suspicious_tlds : EndsWith(url, tld))

_has_suspicious_tld(url) ==
  LET parsed_url == urlparse_netloc(url)
  IN IF parsed_url.kind = "raise" THEN parsed_url
     ELSE Return(\E tld \in suspicious_tlds : EndsWith(parsed_url.value, tld))

_check_redirect_possibility(url) ==
  Cardinality({k \in redirect_keywords : Contains(Lower(url), k)})

has_ip_address(url) == \E i \in 1..Len(url) : url[i] \in DottedQuads

\* extract_urls: one finding per match, in order; the first ValueError of
\* _has_suspicious_tld leaves the function
RECURSIVE AnalyzeUrls(_, _, _)
AnalyzeUrls(urls, i, acc) ==
  IF i > Len(urls) THEN Return(acc)
  ELSE LET tld == _has_suspicious_tld(urls[i])
       IN IF tld.kind = "raise" THEN tld
          ELSE AnalyzeUrls(urls, i + 1,
                 Append(acc, [url |-> urls[i],
                              is_shortened |-> _is_shortened_url(urls[i]),
                              suspicious_tld |-> tld.value,
                              has_ip_address |-> has_ip_address(urls[i]),
                              redirect_depth |-> _check_redirect_possibility(urls[i])]))

extract_urls(text) == AnalyzeUrls(FindUrls(text, 1), 1, <<>>)

\* the threshold expression of lines 150 and 175
RiskLevel(score) == IF score > 70 THEN "HIGH" ELSE IF score > 30 THEN "MEDIUM" ELSE "LOW"

\* RiskMatchAt without the [:\s]* of the pattern
RiskMatchAtNoSeparators(text, i) ==
  IF /\ i + 3 <= Len(text)
     /\ LowerLexeme(text[i]) = "risk"
     /\ text[i + 1] \in ({"_"} \cup Whitespace)
     /\ LowerLexeme(text[i + 2]) = "score"
  THEN SubSeq(text, i + 3, FirstNotIn(text, i + 3, Digits) - 1)
  ELSE <<>>

\* re.search(r'risk[_\s]score[:\s]*(\d+)', text, re.IGNORECASE) tried at index i:
\* the digit run of group 1, or <<>> when the pattern does not match there
RiskMatchAt(text, i) ==
  IF /\ i + 3 <= Len(text)
     /\ LowerLexeme(text[i]) = "risk"
     /\ text[i + 1] \in ({"_"} \cup Whitespace)
     /\ LowerLexeme(text[i + 2]) = "score"
  THEN LET d == FirstNotIn(text, i + 3, {":"} \cup Whitespace)
           e == FirstNotIn(text, d, Digits)
       IN SubSeq(text, d, e - 1)
  ELSE <<>>

\* re.search: the leftmost index at which the pattern matches
RECURSIVE RiskSearch(_, _)
RiskSearch(text, i) ==
  IF i > Len(text) THEN <<>>
  ELSE IF RiskMatchAt(text, i) # <<>> THEN RiskMatchAt(text, i)
  ELSE RiskSearch(text, i + 1)

TechnicalAnalysisLen == 500

_parse_text_response(text) ==
  LET risk_match == RiskSearch(text, 1)
      risk_score == IF risk_match # <<>> THEN IntOf(risk_match) ELSE 50
  IN Return([risk_score |-> PyInt(risk_score),
             risk_level |-> PyStr(RiskLevel(risk_score)),
             indicators_found |-> PyList(<<"AI Analysis Available">>),
             technical_analysis |-> PyStr(Take(text, TechnicalAnalysisLen)),
             recommendations |-> PyList(<<"Review full analysis above">>),
             confidence |-> PyFloat("0.8")])

KeywordMatches(content_lower) ==
  Cardinality({i \in 1..Len(phishing_keywords) : Contains(content_lower, phishing_keywords[i])})

SuspiciousUrls(urls) ==
  Cardinality({i \in 1..Len(urls) : urls[i].suspicious_tld \/ urls[i].has_ip_address})

_fallback_analysis(content, meta) ==
  LET content_lower == Lower(content)
      keyword_matches == KeywordMatches(content_lower)
      score1 == Min(keyword_matches * 15, 60)
      urls == extract_urls(content)
  IN IF urls.kind = "raise" THEN urls
     ELSE LET suspicious_urls == SuspiciousUrls(urls.value)
              risk_score == score1 + Min(suspicious_urls * 20, 40)
          IN Return([risk_score |-> PyInt(Min(risk_score, 100)),
                     risk_level |-> PyStr(RiskLevel(risk_score)),
                     indicators_found |-> PyList(<<<<keyword_matches, "phishing keywords">>,
                                                   <<suspicious_urls, "suspicious URLs">>>>),
                     technical_analysis |-> PyStr(<<"Basic analysis (AI unavailable)">>),
                     recommendations |-> PyList(<<"Exercise caution",
                                                  "Verify sender independently">>),
                     confidence |-> PyFloat("0.6")])

(***************************************************************************)
(* json.loads on the span found by re.search(r'\{.*\}', text, re.DOTALL):  *)
(* an object of string keys with string, integer or float values; any      *)
(* other span raises JSONDecodeError.                                      *)
(***************************************************************************)
Quote == "\""

JsonFloats == {"0.95"}

\* the text of a JSON string, from its lexemes
StrOf(ls) ==
  CASE ls = <<"risk", "_", "score">> -> "risk_score"
    [] ls = <<"risk", "_", "level">> -> "risk_level"
    [] Len(ls) = 1 -> ls[1]
    [] OTHER -> "..."

\* re.search(r'\{.*\}', text, re.DOTALL): greedy, from the first '{' to the
\* last '}'; <<>> when there is no match
RECURSIVE LastIn(_, _, _)
LastIn(s, i, S) ==
  IF i < 1 THEN 0
  ELSE IF s[i] \in S THEN i
  ELSE LastIn(s, i - 1, S)

BraceSearch(text) ==
  LET b == FirstIn(text, 1, {"{"})
      e == LastIn(text, Len(text), {"}"})
  IN IF b < e THEN SubSeq(text, b, e) ELSE <<>>

JsonFail == [ok |-> FALSE, val |-> PyNone, next |-> 0]

JsonString(s, i) ==
  IF i <= Len(s) /\ s[i] = Quote
  THEN LET j == FirstIn(s, i + 1, {Quote})
       IN IF j <= Len(s)
          THEN [ok |-> TRUE, val |-> PyStr(StrOf(SubSeq(s, i + 1, j - 1))), next |-> j + 1]
          ELSE JsonFail
  ELSE JsonFail

JsonValue(s, i) ==
  IF i > Len(s) THEN JsonFail
  ELSE IF s[i] = Quote THEN JsonString(s, i)
  ELSE IF s[i] \in JsonFloats THEN [ok |-> TRUE, val |-> PyFloat(s[i]), next |-> i + 1]
  ELSE IF s[i] \in Digits
  THEN LET e == IF s[i] = "0" THEN i + 1 ELSE FirstNotIn(s, i, Digits)
       IN [ok |-> TRUE, val |-> PyInt(IntOf(SubSeq(s, i, e - 1))), next |-> e]
  ELSE JsonFail

RECURSIVE JsonMembers(_, _, _)
JsonMembers(s, i, acc) ==
  LET k == JsonString(s, FirstNotIn(s, i, Whitespace))
  IN IF ~k.ok THEN Raise("JSONDecodeError")
     ELSE
       LET c == FirstNotIn(s, k.next, Whitespace)
       IN IF c > Len(s) \/ s[c] # ":" THEN Raise("JSONDecodeError")
          ELSE
            LET v == JsonValue(s, FirstNotIn(s, c + 1, Whitespace))
            IN IF ~v.ok THEN Raise("JSONDecodeError")
               ELSE
                 LET n == FirstNotIn(s, v.next, Whitespace)
                     key == k.val.val
                     acc2 == [x \in DOMAIN acc \cup {key} |->
                                IF x = key THEN v.val ELSE acc[x]]
                 IN IF n > Len(s) THEN Raise("JSONDecodeError")
                    ELSE IF s[n] = "}"
                    THEN IF n = Len(s) THEN Return(acc2) ELSE Raise("JSONDecodeError")
                    ELSE IF s[n] = "," THEN JsonMembers(s, n + 1, acc2)
                    ELSE Raise("JSONDecodeError")

EmptyDict == [x \in {} |-> PyNone]

json_loads(s) ==
  LET i == FirstNotIn(s, 2, Whitespace)
  IN IF s[i] = "}"
     THEN IF i = Len(s) THEN Return(EmptyDict) ELSE Raise("JSONDecodeError")
     ELSE JsonMembers(s, i, EmptyDict)

(***************************************************************************)
(* analyze_with_ai                                                         *)
(***************************************************************************)
\* dict.get(key, default)
Get(d, key, default) == IF key \in DOMAIN d THEN d[key] ELSE default

ContentLimit == 2000

\* lines 27-71: the prompt and the request body
BuildPayload(content, meta) ==
  [model |-> "deepseek-chat",
   from |-> Get(meta, "from", "Unknown"),
   subject |-> Get(meta, "subject", "No Subject"),
   has_links |-> Get(meta, "has_links", FALSE),
   has_attachments |-> Get(meta, "has_attachments", FALSE),
   content |-> Take(content, ContentLimit)]

\* what requests.post, raise_for_status and response.json()[...] can give
NoOutcome == [kind |-> "none", content |-> <<>>]

FailureKinds == {"transport_exception", "http_error_status", "malformed_payload"}

\* lines 73-89 after the request was issued: the try body and the handler
HandleResponse(content, meta, o) ==
  IF o.kind \in FailureKinds THEN _fallback_analysis(content, meta)
  ELSE LET ai_response == o.content
           json_match == BraceSearch(ai_response)
       IN IF json_match # <<>>
          THEN LET loaded == json_loads(json_match)
               IN IF loaded.kind = "raise" THEN _fallback_analysis(content, meta)
                  ELSE loaded
          ELSE _parse_text_response(ai_response)

(***************************************************************************)
(* Inputs: bounded sets of e-mail contents, metadata and AI responses      *)
(***************************************************************************)
\* the sequences made of at most n members of vocab, joined by single spaces
RECURSIVE Compose(_, _)
Compose(vocab, n) ==
  IF n = 0 THEN {<<>>}
  ELSE LET prev == Compose(vocab, n - 1)
       IN prev \cup {IF c = <<>> THEN p ELSE c \o <<" ">> \o p : c \in prev, p \in vocab}

Phrases ==
  { <<"hello">>,
    <<"URGENT">>,
    <<"Verify", " ", "immediately">>,
    <<"account suspended", " ", "password expired", " ", "security alert">>,
    <<"click here", " ", "confirm your identity", " ", "unauthorized login attempt">>,
    <<"http://", "a", ".xyz">>,
    <<"http://", "1.2.3.4", "/", "login">>,
    <<"www.", "b", ".tk">>,
    <<"https://", "ok", ".com", "/", "verify">>,
    <<"http://", "[", "x">> }

MetadataSet ==
  { EmptyDict,
    [from |-> "a@b.com", subject |-> "Hi", has_links |-> TRUE, has_attachments |-> FALSE] }

ResponseSegments ==
  { <<"analysis">>,
    <<"risk", " ", "score", ":", " ", "8", "2">>,
    <<"Risk", "_", "SCORE", ":", "9", "9", "9">>,
    <<"{", Quote, "risk", "_", "score", Quote, ":", " ", "8", "5", ",",
      Quote, "risk", "_", "level", Quote, ":", Quote, "HIGH", Quote, ",",
      Quote, "confidence", Quote, ":", "0.95", "}">>,
    <<"{", Quote, "risk", "_", "score", Quote, ":", "8", "5", ",",
      Quote, "risk", "_", "level", Quote, ":", Quote, "LOW", Quote, "}">>,
    <<"{", Quote, "risk", "_", "score", Quote, ":", "1", "5", "0", ",",
      Quote, "risk", "_", "level", Quote, ":", Quote, "HIGH", Quote, "}">>,
    <<"{", "not json", "}">>,
    <<"{">>,
    <<"}">> }

\* the sequences made of at most n members of vocab, one after the other
RECURSIVE Concat(_, _)
Concat(vocab, n) ==
  IF n = 0 THEN {<<>>}
  ELSE LET prev == Concat(vocab, n - 1)
       IN prev \cup {c \o p : c \in prev, p \in vocab}

ScrapeSegments ==
  { <<"risk", " ", "score">>,
    <<"Risk", "_", "SCORE">>,
    <<"risk", "\n", "score">>,
    <<"risk", " ", " ", "score">>,
    <<"risk", "score">>,
    <<":">>,
    <<" ">>,
    <<"high">>,
    <<"0">>, <<"1">>, <<"3">>, <<"7">> }

MaxPhrases == 2
MaxResponseSegments == 2
MaxScorerPhrases == 4
MaxScrapeSegments == 4

Outcomes ==
  {[kind |-> k, content |-> <<>>] : k \in FailureKinds}
    \cup {[kind |-> "ok", content |-> t] : t \in Compose(ResponseSegments, MaxResponseSegments)}

NoResult == [kind |-> "none"]

NoFault == [at |-> "none", index |-> 0]

(***************************************************************************)
(* Spec: one invocation of analyze_with_ai                                 *)
(***************************************************************************)
Init ==
  /\ pc = "start"
  /\ email_content \in Compose(Phrases, MaxPhrases)
  /\ metadata \in MetadataSet
  /\ sent = <<>>
  /\ outcome = NoOutcome
  /\ result = NoResult
  /\ raw_email = PyNone
  /\ fault = NoFault
  /\ parsed = NoResult

\* line 74: requests.post is called
PostRequest ==
  /\ pc = "start"
  /\ sent' = Append(sent, BuildPayload(email_content, metadata))
  /\ pc' = "posted"
  /\ UNCHANGED <<email_content, metadata, outcome, result, raw_email, fault, parsed>>

\* Respond with a second request issued when the first one failed
RespondWithRetry ==
  /\ pc = "posted"
  /\ \E o \in Outcomes :
       /\ outcome' = o
       /\ result' = HandleResponse(email_content, metadata, o)
       /\ sent' = IF o.kind \in FailureKinds
                  THEN Append(sent, BuildPayload(email_content, metadata))
                  ELSE sent
  /\ pc' = "done"
  /\ UNCHANGED <<email_content, metadata, raw_email, fault, parsed>>

\* lines 74-89: the call comes back (or throws) and the result is produced
Respond ==
  /\ pc = "posted"
  /\ \E o \in Outcomes :
       /\ outcome' = o
       /\ result' = HandleResponse(email_content, metadata, o)
  /\ pc' = "done"
  /\ UNCHANGED <<email_content, metadata, sent, raw_email, fault, parsed>>

Next == PostRequest \/ Respond

Spec == Init /\ [][Next]_vars

(***************************************************************************)
(* SpecScorer: _fallback_analysis applied to a content                     *)
(***************************************************************************)
InitScorer ==
  /\ pc = "scorer"
  /\ email_content \in Compose(Phrases, MaxScorerPhrases)
  /\ metadata \in MetadataSet
  /\ sent = <<>>
  /\ outcome = NoOutcome
  /\ result = NoResult
  /\ raw_email = PyNone
  /\ fault = NoFault
  /\ parsed = NoResult

Score ==
  /\ pc = "scorer"
  /\ result' = _fallback_analysis(email_content, metadata)
  /\ pc' = "scored"
  /\ UNCHANGED <<email_content, metadata, sent, outcome, raw_email, fault, parsed>>

NextScorer == Score

SpecScorer == InitScorer /\ [][NextScorer]_vars

(***************************************************************************)
(* SpecUrls: extract_urls applied to a content, then the heuristic scorer  *)
(* applied to the same content                                             *)
(***************************************************************************)
UrlPhrases ==
  { <<"hello">>,
    <<"www.", "b", ".tk">>,
    <<"www.", "x", ".xyz">>,
    <<"www.", "1.2.3.4">>,
    <<"www.", "bit.ly", "/", "login">>,
    <<"www.", "b", ".tk", ":80">>,
    <<"www.", "b", ".tk", "/", "/", "evil", ".tk">>,
    <<"www.", "b", ".tk", "://", "evil", ".tk">>,
    <<"http://", "b", ".tk">>,
    <<"https://", "192.168.1.1", "/", "verify">>,
    <<"http://", "[", "x">> }

MaxUrlPhrases == 3

InitUrls ==
  /\ pc = "urls"
  /\ email_content \in Compose(UrlPhrases, MaxUrlPhrases)
  /\ metadata \in MetadataSet
  /\ sent = <<>>
  /\ outcome = NoOutcome
  /\ result = NoResult
  /\ raw_email = PyNone
  /\ fault = NoFault
  /\ parsed = NoResult

ExtractUrls ==
  /\ pc = "urls"
  /\ parsed' = extract_urls(email_content)
  /\ pc' = "analyzed"
  /\ UNCHANGED <<email_content, metadata, sent, outcome, result, raw_email, fault>>

ScoreUrls ==
  /\ pc = "analyzed"
  /\ result' = _fallback_analysis(email_content, metadata)
  /\ pc' = "urls_scored"
  /\ UNCHANGED <<email_content, metadata, sent, outcome, raw_email, fault, parsed>>

NextUrls == ExtractUrls \/ ScoreUrls

SpecUrls == InitUrls /\ [][NextUrls]_vars

(***************************************************************************)
(* SpecScrape: _parse_text_response applied to an AI text without braces   *)
(***************************************************************************)
InitScrape ==
  /\ pc = "scrape"
  /\ email_content = <<>>
  /\ metadata = EmptyDict
  /\ sent = <<>>
  /\ outcome \in {[kind |-> "ok", content |-> t] : t \in Concat(ScrapeSegments, MaxScrapeSegments)}
  /\ result = NoResult
  /\ raw_email = PyNone
  /\ fault = NoFault
  /\ parsed = NoResult

Scrape ==
  /\ pc = "scrape"
  /\ result' = _parse_text_response(outcome.content)
  /\ pc' = "scraped"
  /\ UNCHANGED <<email_content, metadata, sent, outcome, raw_email, fault, parsed>>

NextScrape == Scrape

SpecScrape == InitScrape /\ [][NextScrape]_vars

(***************************************************************************)
(* Properties of analyze_with_ai, _fallback_analysis, _parse_text_response *)
(***************************************************************************)
RequiredFields ==
  {"risk_score", "risk_level", "indicators_found", "technical_analysis",
   "recommendations", "confidence"}

\* the threshold table: HIGH iff score > 70, MEDIUM iff 30 < score <= 70,
\* LOW iff score <= 30
ThresholdTable(score) ==
  CASE score > 70 -> "HIGH"
    [] score > 30 /\ score <= 70 -> "MEDIUM"
    [] score <= 30 -> "LOW"

Returned == pc = "done" /\ result.kind = "return"

\* C1: analyze_with_ai never raises to its caller: whatever the content, the
\* metadata and the outcome of the network call, the invocation ends with a
\* returned result.
C1_NeverRaises == pc = "done" => result.kind = "return"

\* C2: in every returned result, whichever path produced it, risk_level is
\* the level the threshold table gives for risk_score.
C2_LevelAgreesWithScore ==
  (Returned /\ "risk_score" \in DOMAIN result.value
            /\ result.value["risk_score"].type = "int")
    => /\ "risk_level" \in DOMAIN result.value
       /\ result.value["risk_level"].type = "str"
       /\ result.value["risk_level"].val = ThresholdTable(result.value["risk_score"].val)

\* C3: every returned result carries a risk_score that is an integer in 0..100.
C3_ScoreInRange ==
  Returned
    => /\ "risk_score" \in DOMAIN result.value
       /\ result.value["risk_score"].type = "int"
       /\ result.value["risk_score"].val \in 0..100

\* C4: when the network call fails outright, analyze_with_ai returns exactly
\* the heuristic scorer's result for the same input, with every required
\* field and confidence 0.6.
C4_FailureGivesHeuristic ==
  (pc = "done" /\ outcome.kind \in FailureKinds)
    => /\ result.kind = "return"
       /\ result = _fallback_analysis(email_content, metadata)
       /\ RequiredFields \subseteq DOMAIN result.value
       /\ result.value["confidence"] = PyFloat("0.6")

\* the returned text holds a span from its first '{' to its last '}' that is
\* a JSON object
ParsesAsJsonObject(text) ==
  BraceSearch(text) # <<>> /\ json_loads(BraceSearch(text)).kind = "return"

\* C5: when the call succeeds but the returned text cannot be parsed as a
\* JSON object, the result is the text-scrape parser's (confidence 0.8), not
\* the heuristic scorer's.
C5_UnparseableGivesTextScrape ==
  (pc = "done" /\ outcome.kind = "ok" /\ ~ParsesAsJsonObject(outcome.content))
    => /\ result.kind = "return"
       /\ result = _parse_text_response(outcome.content)
       /\ result.value["confidence"] = PyFloat("0.8")

\* C6: for every content the heuristic scorer returns
\* risk_score = min(min(15*k, 60) + min(20*u, 40), 100), k the number of
\* phishing keywords present in the lowercased content and u the number of
\* URL findings with suspicious_tld or has_ip_address.
C6_ScoreFormula ==
  pc = "scored"
    => /\ result.kind = "return"
       /\ extract_urls(email_content).kind = "return"
       /\ LET k == Cardinality({w \in {phishing_keywords[i] : i \in 1..Len(phishing_keywords)} :
                                  Contains(Lower(email_content), w)})
              fs == extract_urls(email_content).value
              u == Cardinality({i \in 1..Len(fs) :
                                  fs[i].suspicious_tld \/ fs[i].has_ip_address})
          IN result.value["risk_score"] = PyInt(Min(Min(15 * k, 60) + Min(20 * u, 40), 100))

\* a risk-score phrase starts at index i: 'risk', one separator out of seps,
\* 'score', in any letter case
PhraseAt(text, i, seps) ==
  /\ i + 2 <= Len(text)
  /\ LowerLexeme(text[i]) = "risk"
  /\ text[i + 1] \in seps
  /\ LowerLexeme(text[i + 2]) = "score"

\* the index after the colons and whitespace that follow the phrase at i
AfterSeparators(text, i) ==
  CHOOSE d \in (i + 3)..(Len(text) + 1) :
    /\ \A k \in (i + 3)..(d - 1) : text[k] \in {":"} \cup Whitespace
    /\ d = Len(text) + 1 \/ text[d] \notin {":"} \cup Whitespace

\* the index after the digits that start at d
AfterDigits(text, d) ==
  CHOOSE e \in d..(Len(text) + 1) :
    /\ \A k \in d..(e - 1) : text[k] \in Digits
    /\ e = Len(text) + 1 \/ text[e] \notin Digits

RECURSIVE Pow10(_)
Pow10(n) == IF n = 0 THEN 1 ELSE 10 * Pow10(n - 1)

\* the number written by the digits text[d..e-1]
RECURSIVE NumberAt(_, _, _)
NumberAt(text, d, e) ==
  IF d >= e THEN 0
  ELSE DigitVal(text[d]) * Pow10(e - 1 - d) + NumberAt(text, d + 1, e)

\* the score the claim names: the digits after the first phrase that is
\* followed by digits, or 50
ClaimedScore(text, seps) ==
  LET starts == {i \in 1..Len(text) :
                   /\ PhraseAt(text, i, seps)
                   /\ AfterSeparators(text, i) <= Len(text)
                   /\ text[AfterSeparators(text, i)] \in Digits}
  IN IF starts = {} THEN 50
     ELSE LET i == CHOOSE x \in starts : \A y \in starts : x <= y
              d == AfterSeparators(text, i)
          IN NumberAt(text, d, AfterDigits(text, d))

ScrapeAgrees(seps) ==
  pc = "scraped"
    => /\ result.kind = "return"
       /\ result.value["risk_score"] = PyInt(ClaimedScore(outcome.content, seps))
       /\ result.value["risk_level"] =
            PyStr(ThresholdTable(ClaimedScore(outcome.content, seps)))
       /\ result.value["confidence"] = PyFloat("0.8")

\* C7 as stated: the phrase is 'risk score' or 'risk_score' (a space or an
\* underscore between the two words), followed by optional colons and
\* whitespace and then the digits; 50 without such a phrase.
C7_ScrapeSpaceOrUnderscore == ScrapeAgrees({" ", "_"})

\* C7 as amended: the two words are separated by exactly one underscore or
\* one whitespace character of any kind (space, tab, newline); the score is
\* the number after the first such phrase followed by digits, or 50; the
\* level follows the threshold table and confidence is 0.8.
C7_ScrapeAnyWhitespace == ScrapeAgrees({"_"} \cup Whitespace)

C7_Witness ==
  /\ pc = "scraped"
  /\ outcome.content = <<"risk", "\n", "score", ":", "7", "1">>
  /\ result.value["risk_score"] = PyInt(71)
  /\ result.value["risk_level"] = PyStr("HIGH")

\* C8: an invocation issues exactly one request, before any result is
\* produced, and never a second one, whatever the outcome of the call.
C8_ExactlyOneRequest ==
  /\ Len(sent) <= 1
  /\ pc = "start" => (Len(sent) = 0 /\ result.kind = "none")
  /\ pc \in {"posted", "done"} => Len(sent) = 1
  /\ result.kind # "none" => Len(sent) = 1

C8_Witness ==
  /\ pc = "done"
  /\ outcome.kind \in FailureKinds
  /\ result.kind = "return"
  /\ Len(sent) = 1

(***************************************************************************)
(* utils.py: parse_email, html_to_text, extract_links                      *)
(*                                                                         *)
(* A raw e-mail is a string whose lexemes are header lines, the blank line *)
(* "\n" that ends a header block, boundary lines and the lexemes of the    *)
(* payloads.                                                               *)
(***************************************************************************)
HeaderLines ==
  {"From: a@b.com", "Subject: Hi", "X-Mailer: foo",
   "Content-Type: multipart/mixed; boundary=B",
   "Content-Type: text/plain", "Content-Type: text/html",
   "Content-Type: application/pdf", "Content-Type: image/png; name=scan.png",
   "Content-Disposition: attachment; filename=notes.txt",
   "Content-Disposition: attachment; filename=inv.pdf",
   "Content-Disposition: attachment; filename=page.html",
   "Content-Disposition: inline"}

HeaderName(l) ==
  CASE l = "From: a@b.com" -> "From"
    [] l = "Subject: Hi" -> "Subject"
    [] l = "X-Mailer: foo" -> "X-Mailer"
    [] l \in {"Content-Type: multipart/mixed; boundary=B", "Content-Type: text/plain",
              "Content-Type: text/html", "Content-Type: application/pdf",
              "Content-Type: image/png; name=scan.png"} -> "Content-Type"
    [] OTHER -> "Content-Disposition"

HeaderValue(l) ==
  CASE l = "From: a@b.com" -> "a@b.com"
    [] l = "Subject: Hi" -> "Hi"
    [] l = "X-Mailer: foo" -> "foo"
    [] l = "Content-Type: multipart/mixed; boundary=B" -> "multipart/mixed; boundary=B"
    [] l = "Content-Type: text/plain" -> "text/plain"
    [] l = "Content-Type: text/html" -> "text/html"
    [] l = "Content-Type: application/pdf" -> "application/pdf"
    [] l = "Content-Type: image/png; name=scan.png" -> "image/png; name=scan.png"
    [] l = "Content-Disposition: attachment; filename=notes.txt" -> "attachment; filename=notes.txt"
    [] l = "Content-Disposition: attachment; filename=inv.pdf" -> "attachment; filename=inv.pdf"
    [] l = "Content-Disposition: attachment; filename=page.html" -> "attachment; filename=page.html"
    [] OTHER -> "inline"

\* the type/subtype of a Content-Type value
TypeOfValue(v) ==
  CASE v = "multipart/mixed; boundary=B" -> "multipart/mixed"
    [] v = "image/png; name=scan.png" -> "image/png"
    [] OTHER -> v

\* the filename= parameter of a Content-Disposition value, the name= parameter
\* of a Content-Type value, or "" when there is none
FileParam(v) ==
  CASE v = "attachment; filename=notes.txt" -> "notes.txt"
    [] v = "attachment; filename=inv.pdf" -> "inv.pdf"
    [] v = "attachment; filename=page.html" -> "page.html"
    [] v = "image/png; name=scan.png" -> "scan.png"
    [] OTHER -> ""

BoundaryLine == "--B"
ClosingLine == "--B--"

\* Message.get(name): the value of the first header of that name, or ""
HeaderOf(hs, name) ==
  LET idx == {i \in 1..Len(hs) : HeaderName(hs[i]) = name}
  IN IF idx = {} THEN ""
     ELSE HeaderValue(hs[CHOOSE i \in idx : \A j \in idx : i <= j])

\* the header block and the payload of the message text ls
SplitHeaders(ls) ==
  LET h == FirstNotIn(ls, 1, HeaderLines)
      b == IF h <= Len(ls) /\ ls[h] = "\n" THEN h + 1 ELSE h
  IN [headers |-> SubSeq(ls, 1, h - 1), payload |-> SubSeq(ls, b, Len(ls))]

\* the parts between the boundary lines of a multipart body, from index i on
\* (i is the index of a boundary line)
RECURSIVE SplitParts(_, _)
SplitParts(body, i) ==
  IF i > Len(body) \/ body[i] = ClosingLine THEN <<>>
  ELSE LET e == FirstIn(body, i + 1, {BoundaryLine, ClosingLine})
       IN <<SplitHeaders(SubSeq(body, i + 1, e - 1))>> \o SplitParts(body, e)

\* email.message_from_string: the message, its payload a list of parts when
\* it is multipart and a string otherwise
message_from_string(ls) ==
  LET m == SplitHeaders(ls)
      first == FirstIn(m.payload, 1, {BoundaryLine})
  IN IF /\ TypeOfValue(HeaderOf(m.headers, "Content-Type")) = "multipart/mixed"
        /\ first <= Len(m.payload)
     THEN [headers |-> m.headers, multipart |-> TRUE,
           payload |-> SplitParts(m.payload, first)]
     ELSE [headers |-> m.headers, multipart |-> FALSE, payload |-> m.payload]

is_multipart(msg) == msg.multipart

\* Message.walk(): the message, then its parts in order
walk(msg) ==
  IF msg.multipart
  THEN <<msg>> \o [i \in 1..Len(msg.payload) |->
                     [headers |-> msg.payload[i].headers, multipart |-> FALSE,
                      payload |-> msg.payload[i].payload]]
  ELSE <<msg>>

get_content_type(part) ==
  IF HeaderOf(part.headers, "Content-Type") = "" THEN "text/plain"
  ELSE TypeOfValue(HeaderOf(part.headers, "Content-Type"))

\* Message.get_filename(): "" stands for None
get_filename(part) ==
  IF FileParam(HeaderOf(part.headers, "Content-Disposition")) # ""
  THEN FileParam(HeaderOf(part.headers, "Content-Disposition"))
  ELSE FileParam(HeaderOf(part.headers, "Content-Type"))

\* Message.get_payload(decode=True): bytes, or None for a multipart message
get_payload_decoded(part) ==
  IF part.multipart THEN PyNone ELSE PyBytes(part.payload)

\* bytes.decode(errors='ignore'); AttributeError on None
decode(b) == IF b.type = "bytes" THEN Return(PyStr(b.val)) ELSE Raise("AttributeError")

TagLexemes == {"<b>", "</b>", "<script>", "</script>", "<style>", "</style>"}

\* re.sub(r'<open[^>]*>.*?</open>', '', s, flags=re.DOTALL) for one tag pair
RECURSIVE RemoveBlocks(_, _, _, _)
RemoveBlocks(s, i, open, close) ==
  IF i > Len(s) THEN <<>>
  ELSE IF s[i] = open /\ FirstIn(s, i + 1, {close}) <= Len(s)
  THEN RemoveBlocks(s, FirstIn(s, i + 1, {close}) + 1, open, close)
  ELSE <<s[i]>> \o RemoveBlocks(s, i + 1, open, close)

\* html.unescape of one lexeme
Unescape(x) ==
  CASE x = "&amp;" -> "&" [] x = "&lt;" -> "<" [] x = "&gt;" -> ">" [] OTHER -> x

\* re.sub(r'<[^>]+>', ' ', s)
RECURSIVE ReplaceTags(_, _)
ReplaceTags(s, i) ==
  IF i > Len(s) THEN <<>>
  ELSE IF s[i] \in TagLexemes THEN <<" ">> \o ReplaceTags(s, i + 1)
  ELSE IF s[i] = "<" /\ i < Len(s) /\ s[i + 1] # ">"
          /\ FirstIn(s, i + 1, {">"} \cup TagLexemes) <= Len(s)
  THEN <<" ">> \o ReplaceTags(s, FirstIn(s, i + 1, {">"} \cup TagLexemes) + 1)
  ELSE <<s[i]>> \o ReplaceTags(s, i + 1)

\* re.sub(r'\s+', ' ', s)
RECURSIVE CollapseSpaces(_, _)
CollapseSpaces(s, i) ==
  IF i > Len(s) THEN <<>>
  ELSE IF s[i] \in Whitespace
  THEN <<" ">> \o CollapseSpaces(s, FirstNotIn(s, i, Whitespace))
  ELSE <<s[i]>> \o CollapseSpaces(s, i + 1)

\* str.strip()
Strip(s) ==
  LET b == FirstNotIn(s, 1, Whitespace)
      idx == {i \in 1..Len(s) : s[i] \notin Whitespace}
  IN IF idx = {} THEN <<>>
     ELSE SubSeq(s, b, CHOOSE i \in idx : \A j \in idx : j <= i)

html_to_text(html_content) ==
  LET s1 == RemoveBlocks(html_content, 1, "<script>", "</script>")
      s2 == RemoveBlocks(s1, 1, "<style>", "</style>")
      text == [i \in 1..Len(s2) |-> Unescape(s2[i])]
  IN Strip(CollapseSpaces(ReplaceTags(text, 1), 1))

extract_links(text) == FindUrls(text, 1)

AllowedHeaders ==
  {"From", "To", "Subject", "Date", "Return-Path", "Received", "Message-ID", "Content-Type"}

\* lines 21-24
ExtractHeaders(msg) ==
  [h \in {x \in AllowedHeaders : HeaderOf(msg.headers, x) # ""} |-> HeaderOf(msg.headers, h)]

\* line 48: the record the except branch returns
ExceptRecord(raw) ==
  Return([body |-> raw, headers |-> EmptyDict, attachments |-> <<>>, links |-> <<>>])

\* lines 28-37: the loop over msg.walk() from the i-th part on; an exception
\* in an iteration leaves the loop
RECURSIVE WalkParts(_, _, _, _)
WalkParts(parts, i, acc, flt) ==
  IF i > Len(parts) THEN Return(acc)
  ELSE IF flt.at = "part" /\ flt.index = i THEN Raise("Exception")
  ELSE
    LET part == parts[i]
        content_type == get_content_type(part)
    IN IF content_type \in {"text/plain", "text/html"}
       THEN LET d == decode(get_payload_decoded(part))
            IN IF d.kind = "raise" THEN d
               ELSE WalkParts(parts, i + 1,
                      [acc EXCEPT !.body =
                         IF content_type = "text/plain" THEN @ \o d.value.val
                         ELSE @ \o html_to_text(d.value.val)], flt)
       ELSE IF get_filename(part) # ""
       THEN WalkParts(parts, i + 1,
              [acc EXCEPT !.attachments = Append(@, get_filename(part))], flt)
       ELSE WalkParts(parts, i + 1, acc, flt)

\* lines 11-44: the try block, with the place flt where a library call raises
TryParse(raw, flt) ==
  IF flt.at = "message_from_string" THEN Raise("Exception")
  ELSE
    LET msg == message_from_string(raw.val)
        empty == [body |-> <<>>, attachments |-> <<>>]
        walked == IF is_multipart(msg) THEN WalkParts(walk(msg), 1, empty, flt)
                  ELSE IF flt.at = "part" THEN Raise("Exception")
                  ELSE LET d == decode(get_payload_decoded(msg))
                       IN IF d.kind = "raise" THEN d
                          ELSE Return([empty EXCEPT !.body = d.value.val])
    IN IF walked.kind = "raise" THEN walked
       ELSE IF flt.at = "extract_links" THEN Raise("Exception")
       ELSE Return([headers |-> ExtractHeaders(msg),
                    body |-> PyStr(walked.value.body),
                    attachments |-> walked.value.attachments,
                    links |-> extract_links(walked.value.body)])

\* parse_email without its except branch
parse_email_unguarded(raw, flt) == TryParse(raw, flt)

\* parse_email(raw_email): lines 10-48
parse_email(raw, flt) ==
  LET r == TryParse(raw, flt)
  IN IF r.kind = "raise" THEN ExceptRecord(raw) ELSE r

(***************************************************************************)
(* SpecParse: parse_email applied to a raw e-mail                          *)
(***************************************************************************)
RootHeaders ==
  { <<>>, <<"From: a@b.com", "Subject: Hi">>, <<"X-Mailer: foo", "From: a@b.com">> }

PlainBodies ==
  { <<>>, <<"hello", " ", "http://", "a", ".xyz">>, <<"<b>", "hi", "</b>">> }

Parts ==
  { <<"Content-Type: text/plain", "\n", "hello", " ", "http://", "a", ".xyz">>,
    <<"Content-Type: text/plain", "Content-Disposition: attachment; filename=notes.txt",
      "\n", "note">>,
    <<"Content-Type: application/pdf", "Content-Disposition: attachment; filename=inv.pdf",
      "\n", "JVBER">>,
    <<"Content-Type: text/html", "Content-Disposition: attachment; filename=page.html",
      "\n", "<b>", "hi", "</b>">>,
    <<"Content-Type: text/html", "\n", "<script>", "evil", "</script>", "&lt;", "x", "&gt;",
      " ", "\t", "R", "&amp;", "D", "<b>">>,
    <<"Content-Type: application/pdf", "Content-Disposition: inline", "\n", "JVBER">>,
    <<"\n", "plain">>,
    <<"Content-Type: image/png; name=scan.png", "\n", "PNG">> }

MaxParts == 2

RawEmails ==
  {h \o c \o <<"\n">> \o b :
     h \in RootHeaders,
     c \in {<<>>, <<"Content-Type: text/html">>, <<"Content-Type: multipart/mixed; boundary=B">>},
     b \in PlainBodies}
  \cup
  {h \o <<"Content-Type: multipart/mixed; boundary=B", "\n">> \o b \o <<ClosingLine>> :
     h \in RootHeaders,
     b \in Concat({<<BoundaryLine>> \o p : p \in Parts}, MaxParts) \ {<<>>}}

\* the places where a call made inside the try block can raise
Faults(raw) ==
  {NoFault, [at |-> "message_from_string", index |-> 0], [at |-> "extract_links", index |-> 0]}
    \cup {[at |-> "part", index |-> i] : i \in 1..Len(walk(message_from_string(raw.val)))}

InitParse ==
  /\ pc = "parse"
  /\ email_content = <<>>
  /\ metadata = EmptyDict
  /\ sent = <<>>
  /\ outcome = NoOutcome
  /\ result = NoResult
  /\ raw_email \in {PyStr(r) : r \in RawEmails}
  /\ fault = NoFault
  /\ parsed = NoResult

ParseEmail ==
  /\ pc = "parse"
  /\ \E flt \in Faults(raw_email) :
       /\ fault' = flt
       /\ parsed' = parse_email(raw_email, flt)
  /\ pc' = "parsed_email"
  /\ UNCHANGED <<email_content, metadata, sent, outcome, result, raw_email>>

NextParse == ParseEmail

SpecParse == InitParse /\ [][NextParse]_vars

DeclaresFilename(part) == get_filename(part) # ""

\* the filenames the parts of msg declare, in walk order
DeclaredFilenames(msg) ==
  LET named == SelectSeq(walk(msg), DeclaresFilename)
  IN [i \in 1..Len(named) |-> get_filename(named[i])]

\* C10: for a multipart message, attachments lists, in walk order, the
\* filename of every part that declares one, whatever its content type.
C10_EveryFilenameListed ==
  (/\ pc = "parsed_email"
   /\ fault.at = "none"
   /\ is_multipart(message_from_string(raw_email.val)))
    => parsed.value.attachments = DeclaredFilenames(message_from_string(raw_email.val))

(***************************************************************************)
(* Scheme-less URLs                                                        *)
(***************************************************************************)
\* the text of url holds '//'
HoldsDoubleSlash(url) ==
  \E k \in 1..Len(url) :
    \/ url[k] \in {"http://", "https://", "HTTP://", "://"}
    \/ k < Len(url) /\ url[k] = "/" /\ url[k + 1] = "/"

\* url is a match of the www\. alternative of url_pattern and holds no '//'
SchemeLess(url) == url[1] = "www." /\ ~HoldsDoubleSlash(url)

\* the text of url holds a match of \d+\.\d+\.\d+\.\d+
HoldsDottedQuad(url) == \E k \in 1..Len(url) : url[k] \in {"1.2.3.4", "192.168.1.1"}

\* the suspicious_urls count the scorer reports in indicators_found
ReportedSuspiciousUrls == result.value["indicators_found"].val[2][1]

\* C11: every finding of extract_urls whose url is a match of the 'www.'
\* alternative and holds no '//' has suspicious_tld false, whatever its host
\* ends with; in the heuristic scorer's suspicious_urls count such a finding
\* is counted exactly when its url holds a dotted-quad digit pattern.
C11_SchemeLessNeverSuspiciousTld ==
  /\ (pc \in {"analyzed", "urls_scored"} /\ parsed.kind = "return")
       => \A i \in 1..Len(parsed.value) :
            SchemeLess(parsed.value[i].url) => ~parsed.value[i].suspicious_tld
  /\ (pc = "urls_scored" /\ parsed.kind = "return")
       => /\ result.kind = "return"
          /\ LET fs == parsed.value
                 others == {i \in 1..Len(fs) :
                              /\ ~SchemeLess(fs[i].url)
                              /\ fs[i].suspicious_tld \/ fs[i].has_ip_address}
                 schemeless == {i \in 1..Len(fs) :
                                  SchemeLess(fs[i].url) /\ HoldsDottedQuad(fs[i].url)}
             IN ReportedSuspiciousUrls = Cardinality(others) + Cardinality(schemeless)

\* a scheme-less URL on a listed suffix next to one on a dotted quad: the
\* first is not flagged and not counted, the second is counted
C11_Witness ==
  /\ pc = "urls_scored"
  /\ email_content = <<"www.", "b", ".tk", " ", "www.", "1.2.3.4">>
  /\ parsed.kind = "return"
  /\ Len(parsed.value) = 2
  /\ parsed.value[1].url = <<"www.", "b", ".tk">>
  /\ ~parsed.value[1].suspicious_tld
  /\ ~parsed.value[2].suspicious_tld
  /\ parsed.value[2].has_ip_address
  /\ result.kind = "return"
  /\ ReportedSuspiciousUrls = 1
  /\ result.value["risk_score"] = PyInt(20)

====
